---------------------------- MODULE Spec2Model ----------------------------
(***************************************************************************)
(* Model of server.js: the REST backend that keeps the table               *)
(* `computadores` (SQLite) and the photo files under uploads/.             *)
(*                                                                         *)
(* Every request is served in the steps Node gives it: the middleware      *)
(* chain (checkDatabase, multer) runs first, then the synchronous route    *)
(* handler, then one step per SQLite statement: the statement's execution  *)
(* by the store together with the callback that db.run/db.get hands the    *)
(* result to.  SQLite executes one statement at a time, so a statement is  *)
(* atomic; statements of different requests interleave freely.             *)
(***************************************************************************)
EXTENDS Integers, Sequences, FiniteSets, TLC

(***************************************************************************)
(* Bounds of the model.                                                    *)
(***************************************************************************)
MaxID == 2          \* rows ever inserted (AUTOINCREMENT values handed out)
MaxNow == 1         \* last value of the wall clock, in milliseconds
MaxRequests == 2    \* requests served where the requests are counted
MaxRaceRequests == 3 \* requests served by SpecRace
MaxSeconds == 2     \* the seconds the clock of SpecClock runs through

(***************************************************************************)
(* JavaScript and SQL values.  Field values are strings; the two markers   *)
(* stand for a property that is absent from req.body and for SQL NULL.     *)
(***************************************************************************)
Undefined == "<undefined>"
NULL == "<NULL>"

\* A value that `!v` and `v || null` treat as false.
Falsy(v) == v \in {Undefined, NULL, ""}

\* `v || null` of the INSERT's parameter list.
OrNull(v) == IF Falsy(v) THEN NULL ELSE v

\* node-sqlite3 leaves an undefined parameter unbound, which SQLite reads
\* as NULL; every other value is bound as it is.
Bind(v) == IF v = Undefined THEN NULL ELSE v

(***************************************************************************)
(* The schema of `computadores`.                                           *)
(***************************************************************************)
RequiredFields ==
    {"equipo_id", "serial_number", "responsable", "cargo", "estado",
     "windows_update"}

OptionalFields ==
    {"placa_ml", "latitud", "longitud", "direccion_automatica",
     "ubicacion_manual", "observaciones", "problemas_detectados", "revisor"}

NonPhotoFields == RequiredFields \cup OptionalFields

Slots == <<"frontal", "serial", "placa">>

PhotoField(slot) == "foto_" \o slot

PhotoFields == {PhotoField(Slots[i]) : i \in 1..3}

Columns == NonPhotoFields \cup PhotoFields

EstadoValues == {"operativo", "mantenimiento", "dañado"}

WindowsUpdateValues == {"si", "no"}

MsPerSecond == 1000

\* CURRENT_TIMESTAMP has the resolution of a second.
CurrentTimestamp(t) == t \div MsPerSecond

(***************************************************************************)
(* Errors of the store and their mapping to responses.                     *)
(***************************************************************************)
NoError == [code |-> "OK", message |-> ""]

ConstraintErr(msg) == [code |-> "SQLITE_CONSTRAINT", message |-> msg]

BusyErr == [code |-> "SQLITE_BUSY", message |-> "database is locked"]

\* ConstraintViolation without the UNIQUE index on equipo_id.
ConstraintViolationNoUnique(vals, others) ==
    IF \E f \in RequiredFields : vals[f] = NULL
      THEN ConstraintErr("NOT NULL constraint failed")
    ELSE IF vals["estado"] \notin EstadoValues
            \/ vals["windows_update"] \notin WindowsUpdateValues
      THEN ConstraintErr("CHECK constraint failed")
    ELSE NoError

\* ConstraintViolation without the CHECK on windows_update.
ConstraintViolationNoCheck(vals, others) ==
    IF \E f \in RequiredFields : vals[f] = NULL
      THEN ConstraintErr("NOT NULL constraint failed")
    ELSE IF vals["estado"] \notin EstadoValues
      THEN ConstraintErr("CHECK constraint failed")
    ELSE IF \E r \in others : r["equipo_id"] = vals["equipo_id"]
      THEN ConstraintErr("UNIQUE constraint failed: computadores.equipo_id")
    ELSE NoError

\* The constraint a row of values violates, in the order SQLite checks
\* them: NOT NULL, CHECK, UNIQUE.  `others` are the rows it is compared to.
ConstraintViolation(vals, others) ==
    IF \E f \in RequiredFields : vals[f] = NULL
      THEN ConstraintErr("NOT NULL constraint failed")
    ELSE IF vals["estado"] \notin EstadoValues
            \/ vals["windows_update"] \notin WindowsUpdateValues
      THEN ConstraintErr("CHECK constraint failed")
    ELSE IF \E r \in others : r["equipo_id"] = vals["equipo_id"]
      THEN ConstraintErr("UNIQUE constraint failed: computadores.equipo_id")
    ELSE NoError

handleDatabaseError(err) ==
    IF err.code = "SQLITE_CONSTRAINT"
      THEN IF err.message = "UNIQUE constraint failed: computadores.equipo_id"
             THEN [status |-> 400, error |-> "El ID del equipo ya existe",
                   code |-> err.code]
           ELSE IF err.message
                     = "UNIQUE constraint failed: computadores.serial_number"
             THEN [status |-> 400, error |-> "El número de serie ya existe",
                   code |-> err.code]
           ELSE [status |-> 400, error |-> "Error de validación de datos",
                 code |-> err.code]
    ELSE IF err.code = "SQLITE_ERROR"
      THEN [status |-> 400, error |-> "Error de consulta SQL",
            code |-> err.code]
    ELSE [status |-> 500, error |-> "Error interno del servidor",
          code |-> err.code]

(***************************************************************************)
(* File names.                                                             *)
(***************************************************************************)
DecDigits == <<"0", "1", "2", "3", "4", "5", "6", "7", "8", "9">>

\* The decimal text of a number, as a template literal writes Date.now().
RECURSIVE NumStr(_)
NumStr(n) ==
    IF n < 10 THEN DecDigits[n + 1]
    ELSE NumStr(n \div 10) \o DecDigits[(n % 10) + 1]

Whitespace == {" ", "\t"}

\* originalname.replace(/\s+/g, '_') on a name given as its characters:
\* every run of whitespace becomes one underscore.
RECURSIVE ReplaceWhitespace(_, _)
ReplaceWhitespace(name, inRun) ==
    IF name = <<>> THEN ""
    ELSE IF Head(name) \in Whitespace
      THEN (IF inRun THEN "" ELSE "_") \o ReplaceWhitespace(Tail(name), TRUE)
    ELSE Head(name) \o ReplaceWhitespace(Tail(name), FALSE)

\* multer's filename callback, joined to the destination directory.
StorageFilename(t, originalname) ==
    "uploads/" \o NumStr(t) \o "-" \o ReplaceWhitespace(originalname, FALSE)

\* The path the create handler gives a base64 photo.
Base64Path(t, slot) == "uploads/" \o NumStr(t) \o "-" \o slot \o ".jpg"

\* The path the update handler gives a base64 photo.
Base64UpdatePath(t, slot) ==
    "uploads/" \o NumStr(t) \o "-" \o slot \o "-update.jpg"

(***************************************************************************)
(* Requests.                                                               *)
(***************************************************************************)
Clients == {1, 2}

\* limits.fileSize of multer: 15 MB.
FileSizeLimit == 15 * 1024 * 1024

\* An uploaded part of a multipart request; NoFile where the slot has none.
NoFile == [originalname |-> <<>>, mimetype |-> <<"", "">>, size |-> 0]

NoUpload == [s \in {"frontal", "serial", "placa"} |-> NoFile]

\* A base64 field of req.body is held as the parts that split(',') gives;
\* the empty tuple stands for a field that is absent.
NoBase64 == [s \in {"frontal", "serial", "placa"} |-> <<>>]

Base64Truthy(parts) == parts # <<>> /\ parts # <<"">>

NoPaths == [s \in {"frontal", "serial", "placa"} |-> NULL]

NoBody == [f \in NonPhotoFields |-> Undefined]

NoRequest ==
    [method |-> "NONE", id |-> 0, body |-> NoBody, base64 |-> NoBase64,
     upload |-> NoUpload]

NoParams == [f \in Columns |-> NULL]

StatKeys ==
    <<"total", "operativos", "mantenimiento", "dañados", "windows_si",
      "windows_no", "revisiones_hoy", "con_problemas", "con_ubicacion">>

VARIABLES
    computadores,   \* the rows of the table
    lastID,         \* the last AUTOINCREMENT value handed out
    uploads,        \* the files that exist under uploads/
    uploadsDir,     \* whether the directory uploads/ exists
    written,        \* every path a photo write has produced so far
    clobbered,      \* the paths that a second photo write has produced again
    now,            \* Date.now()
    pc,             \* where each client's request stands
    req,            \* the request each client sent last
    reqFiles,       \* req.files: the path multer stored each part under
    params,         \* the parameters of the pending INSERT or UPDATE
    row,            \* the row the DELETE handler's SELECT returned
    unlinked,       \* the calls of fs.unlinkSync the DELETE handler made
    pending,        \* the count queries whose callback has not run
    stats,          \* the statistics object under construction
    completed,      \* the counter of the statistics handler
    hasError,       \* the flag of the statistics handler
    failed,         \* the count queries for which the store reported an error
    res,            \* the responses sent to the request, in order
    sent,           \* the requests that have arrived, where they are counted
    boot,           \* where startServer stands
    dbInitialized,  \* the readiness flag
    tableCreated,   \* whether the table computadores exists
    indexPending,   \* the CREATE INDEX statements whose callback has not run
    indexCreated,   \* the indices that exist
    indicesCreated  \* the counter of initializeDatabase

vars ==
    <<computadores, lastID, uploads, uploadsDir, written, clobbered, now, pc,
      req, reqFiles, params, row, unlinked, pending, stats, completed,
      hasError, failed, res, sent, boot, dbInitialized, tableCreated,
      indexPending, indexCreated, indicesCreated>>

storeVars == <<computadores, lastID>>
diskVars == <<uploads, uploadsDir, written, clobbered>>
deleteVars == <<row, unlinked>>
statsVars == <<pending, stats, completed, hasError, failed>>
bootVars ==
    <<boot, dbInitialized, tableCreated, indexPending, indexCreated,
      indicesCreated>>

\* The five indices of initializeDatabase.
Indices ==
    {"idx_serial_number", "idx_equipo_id", "idx_estado", "idx_revisor",
     "idx_fecha_revision"}

\* initializeDatabase has resolved and app.listen was called.
Listening ==
    /\ boot = "listening"
    /\ dbInitialized = TRUE
    /\ tableCreated = TRUE
    /\ indexPending = {}
    /\ indexCreated = Indices
    /\ indicesCreated = Cardinality(Indices)

\* No row, no file, no request.
Idle ==
    /\ computadores = {}
    /\ lastID = 0
    /\ uploads = {}
    /\ uploadsDir \in BOOLEAN
    /\ written = {}
    /\ clobbered = {}
    /\ now = 0
    /\ pc = [c \in Clients |-> "idle"]
    /\ req = [c \in Clients |-> NoRequest]
    /\ reqFiles = [c \in Clients |-> NoPaths]
    /\ params = [c \in Clients |-> NoParams]
    /\ row = [c \in Clients |-> {}]
    /\ unlinked = [c \in Clients |-> <<>>]
    /\ pending = [c \in Clients |-> {}]
    /\ stats = [c \in Clients |-> << >>]
    /\ completed = [c \in Clients |-> 0]
    /\ hasError = [c \in Clients |-> FALSE]
    /\ failed = [c \in Clients |-> {}]
    /\ res = [c \in Clients |-> <<>>]
    /\ sent = 0

\* The state in which requests are served: the store is ready and the
\* server listens.
Init == Idle /\ Listening

\* The wall clock advances by a millisecond or by a second.
Tick ==
    /\ \E d \in {1, MsPerSecond} :
         /\ now + d <= MaxNow
         /\ now' = now + d
    /\ UNCHANGED <<storeVars, diskVars, pc, req, reqFiles, params, deleteVars,
                   statsVars, res, sent>>
    /\ UNCHANGED bootVars

(***************************************************************************)
(* multer: upload.fields with diskStorage, fileFilter and limits.          *)
(***************************************************************************)
\* The parts of a request are handled in order.  A part the fileFilter
\* refuses, or one longer than limits.fileSize, aborts the upload; multer
\* then removes the files this request has stored.
RECURSIVE MulterFrom(_, _, _, _)
MulterFrom(i, upload, t, acc) ==
    IF i > 3 \/ acc.err # "" THEN acc
    ELSE LET slot == Slots[i]
             file == upload[slot]
             path == StorageFilename(t, file.originalname)
         IN  IF file = NoFile THEN MulterFrom(i + 1, upload, t, acc)
             ELSE IF file.mimetype[1] # "image"
               THEN [acc EXCEPT !.err = "Solo se permiten archivos de imagen"]
             ELSE IF file.size > FileSizeLimit
               THEN [acc EXCEPT !.err = "LIMIT_FILE_SIZE", !.mkdir = TRUE,
                                !.wrote = Append(@, path)]
             ELSE MulterFrom(i + 1, upload, t,
                             [acc EXCEPT !.mkdir = TRUE,
                                         !.wrote = Append(@, path),
                                         !.paths[slot] = path])

Multer(upload, t) ==
    MulterFrom(1, upload, t,
               [paths |-> NoPaths, wrote |-> <<>>, mkdir |-> FALSE,
                err |-> ""])

\* The global error middleware.
ErrorMiddleware(err) ==
    IF err = "LIMIT_FILE_SIZE"
      THEN [status |-> 400, error |-> "Archivo demasiado grande"]
    ELSE [status |-> 500, error |-> "Error interno del servidor"]

Range(seq) == {seq[i] : i \in 1..Len(seq)}

\* The paths of a sequence of writes that an earlier write, of the sequence
\* or of `before`, had produced already.
Rewritten(wrote, before) ==
    {wrote[i] : i \in {j \in 1..Len(wrote) :
                         \/ wrote[j] \in before
                         \/ \E k \in 1..(j - 1) : wrote[k] = wrote[j]}}

\* A POST or PUT arrives with its body and parts: checkDatabase passes (the
\* server listens only once the store is ready) and multer stores the parts.
Upload(c, method, id, body, base64, upload) ==
    /\ pc[c] = "idle"
    /\ LET m == Multer(upload, now)
       IN  /\ req' = [req EXCEPT ![c] =
                        [method |-> method, id |-> id, body |-> body,
                         base64 |-> base64, upload |-> upload]]
           /\ written' = written \cup Range(m.wrote)
           /\ clobbered' = clobbered \cup Rewritten(m.wrote, written)
           /\ uploadsDir' = (uploadsDir \/ m.mkdir)
           /\ IF m.err = ""
                THEN /\ uploads' = uploads \cup Range(m.wrote)
                     /\ reqFiles' = [reqFiles EXCEPT ![c] = m.paths]
                     /\ pc' = [pc EXCEPT ![c] = "handler"]
                     /\ UNCHANGED res
                ELSE /\ uploads' = uploads \ Range(m.wrote)
                     /\ reqFiles' = [reqFiles EXCEPT ![c] = NoPaths]
                     /\ pc' = [pc EXCEPT ![c] = "answered"]
                     /\ res' = [res EXCEPT ![c] = <<ErrorMiddleware(m.err)>>]
    /\ UNCHANGED <<storeVars, now, params, deleteVars, statsVars>>
    /\ UNCHANGED bootVars

(***************************************************************************)
(* The photo block of the POST and PUT handlers.                           *)
(***************************************************************************)
\* Slot by slot: a slot with no uploaded part and a base64 field gets the
\* decoded bytes written under a new name.  split(',')[1] of a value with no
\* comma is undefined and Buffer.from throws; writeFileSync throws when the
\* directory is missing.  A throw ends the block with the files written so
\* far left in place.
RECURSIVE Base64From(_, _, _, _, _, _)
Base64From(i, base64, t, dirExists, isUpdate, acc) ==
    IF i > 3 \/ acc.threw THEN acc
    ELSE LET slot == Slots[i]
             path == IF isUpdate THEN Base64UpdatePath(t, slot)
                     ELSE Base64Path(t, slot)
         IN  IF acc.paths[slot] = NULL /\ Base64Truthy(base64[slot])
               THEN IF Len(base64[slot]) < 2 \/ ~dirExists
                      THEN [acc EXCEPT !.threw = TRUE]
                    ELSE Base64From(i + 1, base64, t, dirExists, isUpdate,
                                    [acc EXCEPT !.paths[slot] = path,
                                                !.wrote = Append(@, path)])
             ELSE Base64From(i + 1, base64, t, dirExists, isUpdate, acc)

ProcessPhotos(filePaths, base64, t, dirExists, isUpdate) ==
    Base64From(1, base64, t, dirExists, isUpdate,
               [paths |-> filePaths, wrote |-> <<>>, threw |-> FALSE])

PhotoError == [status |-> 400, error |-> "Error procesando las fotos"]

SlotOf(f) == CHOOSE s \in {"frontal", "serial", "placa"} : PhotoField(s) = f

\* WritePhotos that writes no file.
WritePhotosNone(wrote) == UNCHANGED <<uploads, uploadsDir, written, clobbered>>

\* The effect of a handler's photo writes on the uploads directory.
WritePhotos(wrote) ==
    /\ uploads' = uploads \cup Range(wrote)
    /\ written' = written \cup Range(wrote)
    /\ clobbered' = clobbered \cup Rewritten(wrote, written)
    /\ UNCHANGED uploadsDir

(***************************************************************************)
(* POST /api/computadores                                                  *)
(***************************************************************************)
ValidationError(body, base64) ==
    [status |-> 400, error |-> "Campos requeridos faltantes",
     required |-> RequiredFields,
     received |-> {f \in NonPhotoFields : body[f] # Undefined}
                    \cup {PhotoField(s) \o "_base64" :
                            s \in {t \in DOMAIN base64 : base64[t] # <<>>}}]

\* RequiredMissing without the test of cargo.
RequiredMissingNoCargo(body) ==
    \E f \in RequiredFields \ {"cargo"} : Falsy(body[f])

\* !equipo_id || !serial_number || !responsable || !cargo || !estado ||
\* !windows_update
RequiredMissing(body) == \E f \in RequiredFields : Falsy(body[f])

\* The parameter list of the INSERT.
InsertParams(body, paths) ==
    [f \in Columns |->
        IF f \in PhotoFields THEN paths[SlotOf(f)]
        ELSE IF f \in RequiredFields THEN Bind(body[f])
        ELSE OrNull(body[f])]

\* The route handler of POST: validation, photos, and the INSERT is issued.
PostHandler(c) ==
    /\ pc[c] = "handler"
    /\ req[c].method = "POST"
    /\ LET body == req[c].body
           photos == ProcessPhotos(reqFiles[c], req[c].base64, now,
                                   uploadsDir, FALSE)
       IN  IF RequiredMissing(body)
             THEN /\ res' = [res EXCEPT ![c] =
                               <<ValidationError(body, req[c].base64)>>]
                  /\ pc' = [pc EXCEPT ![c] = "answered"]
                  /\ UNCHANGED <<diskVars, params>>
           ELSE /\ WritePhotos(photos.wrote)
                /\ IF photos.threw
                     THEN /\ res' = [res EXCEPT ![c] = <<PhotoError>>]
                          /\ pc' = [pc EXCEPT ![c] = "answered"]
                          /\ UNCHANGED params
                   ELSE /\ params' = [params EXCEPT ![c] =
                                        InsertParams(body, photos.paths)]
                        /\ pc' = [pc EXCEPT ![c] = "insert"]
                        /\ UNCHANGED res
    /\ UNCHANGED sent
    /\ UNCHANGED <<storeVars, now, req, reqFiles, deleteVars, statsVars>>
    /\ UNCHANGED bootVars

\* The row an INSERT stores: the values, the new id and both timestamps at
\* their default.
NewRow(id, vals, ts) ==
    [f \in Columns \cup {"id", "fecha_revision", "fecha_actualizacion"} |->
        IF f = "id" THEN id
        ELSE IF f \in {"fecha_revision", "fecha_actualizacion"} THEN ts
        ELSE vals[f]]

Created(id, body) ==
    [status |-> 201, id |-> id, equipo_id |-> body["equipo_id"],
     serial_number |-> body["serial_number"]]

\* The INSERT is executed and its callback answers.
InsertCallback(c) ==
    /\ pc[c] = "insert"
    /\ LET err == ConstraintViolation(params[c], computadores)
       IN  IF err # NoError
             THEN /\ res' = [res EXCEPT ![c] =
                               Append(@, handleDatabaseError(err))]
                  /\ UNCHANGED storeVars
           ELSE /\ computadores' =
                     computadores
                       \cup {NewRow(lastID + 1, params[c],
                                    CurrentTimestamp(now))}
                /\ lastID' = lastID + 1
                /\ res' = [res EXCEPT ![c] =
                             Append(@, Created(lastID + 1, req[c].body))]
    /\ pc' = [pc EXCEPT ![c] = "answered"]
    /\ UNCHANGED sent
    /\ UNCHANGED <<diskVars, now, req, reqFiles, params, deleteVars,
                   statsVars>>
    /\ UNCHANGED bootVars

(***************************************************************************)
(* PUT /api/computadores/:id                                               *)
(***************************************************************************)
\* The parameter list of the UPDATE.
UpdateParams(body, paths) ==
    [f \in Columns |->
        IF f \in PhotoFields THEN paths[SlotOf(f)] ELSE Bind(body[f])]

\* The route handler of PUT: photos, and the UPDATE is issued.
PutHandler(c) ==
    /\ pc[c] = "handler"
    /\ req[c].method = "PUT"
    /\ LET photos == ProcessPhotos(reqFiles[c], req[c].base64, now,
                                   uploadsDir, TRUE)
       IN  /\ WritePhotos(photos.wrote)
           /\ IF photos.threw
                THEN /\ res' = [res EXCEPT ![c] = <<PhotoError>>]
                     /\ pc' = [pc EXCEPT ![c] = "answered"]
                     /\ UNCHANGED params
              ELSE /\ params' = [params EXCEPT ![c] =
                                   UpdateParams(req[c].body, photos.paths)]
                   /\ pc' = [pc EXCEPT ![c] = "update"]
                   /\ UNCHANGED res
    /\ UNCHANGED sent
    /\ UNCHANGED <<storeVars, now, req, reqFiles, deleteVars, statsVars>>
    /\ UNCHANGED bootVars

\* Coalesce that takes the parameter as it is.
CoalesceOverwrite(v, old) == v

\* COALESCE(?, column)
Coalesce(v, old) == IF v # NULL THEN v ELSE old

\* UpdateValues with every column kept when its parameter is NULL.
UpdateValuesKeep(p, old) == [f \in Columns |-> Coalesce(p[f], old[f])]

\* The values the SET clause gives the row `old`.
UpdateValues(p, old) ==
    [f \in Columns |->
        IF f \in PhotoFields THEN Coalesce(p[f], old[f]) ELSE p[f]]

\* UpdatedRow with the timestamp written to fecha_revision.
UpdatedRowRevision(old, vals, ts) ==
    [f \in DOMAIN old |->
        IF f = "fecha_revision" THEN ts
        ELSE IF f \in Columns THEN vals[f]
        ELSE old[f]]

\* The row an UPDATE stores in place of `old`.
UpdatedRow(old, vals, ts) ==
    [f \in DOMAIN old |->
        IF f = "fecha_actualizacion" THEN ts
        ELSE IF f \in Columns THEN vals[f]
        ELSE old[f]]

\* NotFound answered as a success.
NotFoundAsSuccess == [status |-> 200, message |-> "eliminado"]

NotFound == [status |-> 404, error |-> "Registro no encontrado"]

Updated == [status |-> 200, message |-> "actualizado"]

\* The UPDATE is executed and its callback answers.
UpdateCallback(c) ==
    /\ pc[c] = "update"
    /\ LET target == {r \in computadores : r["id"] = req[c].id}
       IN  IF target = {}
             THEN /\ res' = [res EXCEPT ![c] = Append(@, NotFound)]
                  /\ UNCHANGED storeVars
           ELSE LET old == CHOOSE r \in target : TRUE
                    vals == UpdateValues(params[c], old)
                    err == ConstraintViolation(vals, computadores \ {old})
                IN  IF err # NoError
                      THEN /\ res' = [res EXCEPT ![c] =
                                        Append(@, handleDatabaseError(err))]
                           /\ UNCHANGED storeVars
                    ELSE /\ computadores' =
                              (computadores \ {old})
                                \cup {UpdatedRow(old, vals,
                                                 CurrentTimestamp(now))}
                         /\ res' = [res EXCEPT ![c] = Append(@, Updated)]
                         /\ UNCHANGED lastID
    /\ pc' = [pc EXCEPT ![c] = "answered"]
    /\ UNCHANGED sent
    /\ UNCHANGED <<diskVars, now, req, reqFiles, params, deleteVars,
                   statsVars>>
    /\ UNCHANGED bootVars

(***************************************************************************)
(* DELETE /api/computadores/:id                                            *)
(***************************************************************************)
\* A request with no body arrives.
Arrive(c, method, id) ==
    /\ pc[c] = "idle"
    /\ req' = [req EXCEPT ![c] = [NoRequest EXCEPT !.method = method,
                                                   !.id = id]]
    /\ UNCHANGED <<reqFiles, params, res>>

\* The route handler of DELETE issues the SELECT of the three photo paths.
Delete(c, id) ==
    /\ Arrive(c, "DELETE", id)
    /\ pc' = [pc EXCEPT ![c] = "select"]
    /\ UNCHANGED <<storeVars, diskVars, now, deleteVars, statsVars>>
    /\ UNCHANGED bootVars

\* SELECT foto_frontal, foto_serial, foto_placa ... WHERE id = ?
SelectPhotos(id) ==
    {[s \in {"frontal", "serial", "placa"} |-> r[PhotoField(s)]] :
        r \in {x \in computadores : x["id"] = id}}

\* The SELECT is executed; its callback keeps the row (none when the id is
\* unknown) and issues the DELETE.
DeleteSelectCallback(c) ==
    /\ pc[c] = "select"
    /\ row' = [row EXCEPT ![c] = SelectPhotos(req[c].id)]
    /\ pc' = [pc EXCEPT ![c] = "delete"]
    /\ UNCHANGED sent
    /\ UNCHANGED <<storeVars, diskVars, now, req, reqFiles, params, unlinked,
                   statsVars, res>>
    /\ UNCHANGED bootVars

\* The forEach over the three paths: a path that is set and exists is
\* unlinked inside try/catch.  `throws` are the slots whose unlinkSync
\* throws; the file of such a slot stays.
RECURSIVE UnlinkFrom(_, _, _, _)
UnlinkFrom(i, paths, throws, acc) ==
    IF i > 3 THEN acc
    ELSE LET slot == Slots[i]
             fotoPath == paths[slot]
         IN  IF fotoPath # NULL /\ fotoPath \in acc.disk
               THEN UnlinkFrom(i + 1, paths, throws,
                      [disk |-> IF slot \in throws THEN acc.disk
                                ELSE acc.disk \ {fotoPath},
                       calls |-> Append(acc.calls,
                                        [path |-> fotoPath,
                                         threw |-> slot \in throws])])
             ELSE UnlinkFrom(i + 1, paths, throws, acc)

\* UnlinkFrom with no try/catch: the first throw ends the loop.
RECURSIVE UnlinkFromAbort(_, _, _, _)
UnlinkFromAbort(i, paths, throws, acc) ==
    IF i > 3 THEN acc
    ELSE LET slot == Slots[i]
             fotoPath == paths[slot]
         IN  IF fotoPath # NULL /\ fotoPath \in acc.disk
               THEN IF slot \in throws
                      THEN [acc EXCEPT !.calls =
                              Append(@, [path |-> fotoPath, threw |-> TRUE])]
                    ELSE UnlinkFromAbort(i + 1, paths, throws,
                           [disk |-> acc.disk \ {fotoPath},
                            calls |-> Append(acc.calls,
                                             [path |-> fotoPath,
                                              threw |-> FALSE])])
             ELSE UnlinkFromAbort(i + 1, paths, throws, acc)

UnlinkPhotosAbort(paths, throws, disk) ==
    UnlinkFromAbort(1, paths, throws, [disk |-> disk, calls |-> <<>>])

UnlinkPhotos(paths, throws, disk) ==
    UnlinkFrom(1, paths, throws, [disk |-> disk, calls |-> <<>>])

Deleted == [status |-> 200, message |-> "eliminado"]

\* The DELETE is executed; its callback removes the photos and answers.
DeleteRunCallback(c, throws) ==
    /\ pc[c] = "delete"
    /\ LET target == {r \in computadores : r["id"] = req[c].id}
       IN  IF target = {}
             THEN /\ res' = [res EXCEPT ![c] = Append(@, NotFound)]
                  /\ UNCHANGED <<computadores, uploads, unlinked>>
           ELSE /\ computadores' = computadores \ target
                /\ IF row[c] # {}
                     THEN LET u == UnlinkPhotos(CHOOSE r \in row[c] : TRUE,
                                                throws, uploads)
                          IN  /\ uploads' = u.disk
                              /\ unlinked' = [unlinked EXCEPT ![c] = u.calls]
                   ELSE UNCHANGED <<uploads, unlinked>>
                /\ res' = [res EXCEPT ![c] = Append(@, Deleted)]
    /\ pc' = [pc EXCEPT ![c] = "answered"]
    /\ UNCHANGED sent
    /\ UNCHANGED <<lastID, uploadsDir, written, clobbered, now, req, reqFiles,
                   params, row, statsVars>>
    /\ UNCHANGED bootVars

(***************************************************************************)
(* GET /api/estadisticas                                                   *)
(***************************************************************************)
SecondsPerDay == 86400

\* DATE(x) of a timestamp in seconds.
Date(ts) == ts \div SecondsPerDay

\* The result of the count query of a key on the table as it stands.
Count(key, t) ==
    Cardinality(
      {r \in computadores :
         CASE key = "total" -> TRUE
           [] key = "operativos" -> r["estado"] = "operativo"
           [] key = "mantenimiento" -> r["estado"] = "mantenimiento"
           [] key = "dañados" -> r["estado"] = "dañado"
           [] key = "windows_si" -> r["windows_update"] = "si"
           [] key = "windows_no" -> r["windows_update"] = "no"
           [] key = "revisiones_hoy" ->
                Date(r["fecha_revision"]) = Date(CurrentTimestamp(t))
           [] key = "con_problemas" ->
                r["problemas_detectados"] \notin {NULL, ""}
           [] key = "con_ubicacion" ->
                r["latitud"] # NULL /\ r["longitud"] # NULL})

\* The route handler issues the nine count queries.
Estadisticas(c) ==
    /\ Arrive(c, "STATS", 0)
    /\ pc' = [pc EXCEPT ![c] = "stats"]
    /\ pending' = [pending EXCEPT ![c] = Range(StatKeys)]
    /\ UNCHANGED <<stats, completed, hasError, failed>>
    /\ UNCHANGED <<storeVars, diskVars, now, deleteVars>>
    /\ UNCHANGED bootVars

StatsResponse(s) == [status |-> 200, stats |-> s]

\* CallbackOutcome without the tests of hasError.
CallbackOutcomeNoFlag(err, hasErr) == IF err THEN "error" ELSE "count"

\* What the callback of a count query does: `if (err && !hasError)` answers
\* with the error, `if (!hasError)` stores the count, otherwise nothing.
CallbackOutcome(err, hasErr) ==
    IF err /\ ~hasErr THEN "error"
    ELSE IF ~hasErr THEN "count"
    ELSE "skip"

\* One count query is executed, in any order among those pending, and its
\* callback runs; `fails` is whether the store reports an error for it.
StatsCallback(c, key, fails) ==
    /\ pc[c] = "stats"
    /\ key \in pending[c]
    /\ pending' = [pending EXCEPT ![c] = @ \ {key}]
    /\ failed' = [failed EXCEPT ![c] = IF fails THEN @ \cup {key} ELSE @]
    /\ pc' = [pc EXCEPT ![c] =
                IF pending[c] = {key} THEN "answered" ELSE "stats"]
    /\ LET outcome == CallbackOutcome(fails, hasError[c])
           s == (key :> Count(key, now)) @@ stats[c]
       IN  CASE outcome = "error" ->
                  /\ hasError' = [hasError EXCEPT ![c] = TRUE]
                  /\ res' = [res EXCEPT ![c] =
                               Append(@, handleDatabaseError(BusyErr))]
                  /\ UNCHANGED <<stats, completed>>
             [] outcome = "count" ->
                  /\ stats' = [stats EXCEPT ![c] = s]
                  /\ completed' = [completed EXCEPT ![c] = @ + 1]
                  /\ res' = [res EXCEPT ![c] =
                               IF completed[c] + 1 = Len(StatKeys)
                                 THEN Append(@, StatsResponse(s))
                               ELSE @]
                  /\ UNCHANGED hasError
             [] OTHER -> UNCHANGED <<stats, completed, hasError, res>>
    /\ UNCHANGED sent
    /\ UNCHANGED <<storeVars, diskVars, now, req, reqFiles, params,
                   deleteVars>>
    /\ UNCHANGED bootVars

\* The answered request ends: the handler's locals are gone and the client
\* may send its next request.
Close(c) ==
    /\ pc[c] = "answered"
    /\ pc' = [pc EXCEPT ![c] = "idle"]
    /\ req' = [req EXCEPT ![c] = NoRequest]
    /\ reqFiles' = [reqFiles EXCEPT ![c] = NoPaths]
    /\ params' = [params EXCEPT ![c] = NoParams]
    /\ row' = [row EXCEPT ![c] = {}]
    /\ unlinked' = [unlinked EXCEPT ![c] = <<>>]
    /\ pending' = [pending EXCEPT ![c] = {}]
    /\ stats' = [stats EXCEPT ![c] = << >>]
    /\ completed' = [completed EXCEPT ![c] = 0]
    /\ hasError' = [hasError EXCEPT ![c] = FALSE]
    /\ failed' = [failed EXCEPT ![c] = {}]
    /\ res' = [res EXCEPT ![c] = <<>>]
    /\ UNCHANGED <<storeVars, diskVars, now, sent>>
    /\ UNCHANGED bootVars

(***************************************************************************)
(* The requests the clients send.                                          *)
(***************************************************************************)
\* A body with every field set.
FullBody(equipo_id, estado, windows_update) ==
    [f \in NonPhotoFields |->
        CASE f = "equipo_id" -> equipo_id
          [] f = "estado" -> estado
          [] f = "windows_update" -> windows_update
          [] f = "serial_number" -> "SN-1"
          [] f = "responsable" -> "Ana"
          [] f = "cargo" -> "Soporte"
          [] f = "latitud" -> "4.61"
          [] f = "longitud" -> "-74.08"
          [] OTHER -> "x"]

\* The body without the fields `omitted`.
Omit(body, omitted) ==
    [f \in NonPhotoFields |-> IF f \in omitted THEN Undefined ELSE body[f]]

\* The body with the fields `blank` sent as the empty string.
Blank(body, blank) ==
    [f \in NonPhotoFields |-> IF f \in blank THEN "" ELSE body[f]]

Ids == 1..MaxID

\* The POST requests in flight; each may take a new id.
Inserting ==
    {c \in Clients :
       pc[c] \notin {"idle", "answered"} /\ req[c].method = "POST"}

Post(c, body, base64, upload) ==
    /\ lastID + Cardinality(Inserting) < MaxID
    /\ Upload(c, "POST", 0, body, base64, upload)

Put(c, id, body, base64, upload) == Upload(c, "PUT", id, body, base64, upload)

\* The request is one of the MaxRequests that are served.
Counted == sent < MaxRequests /\ sent' = sent + 1

\* The request is one of the MaxRaceRequests that are served.
CountedRace == sent < MaxRaceRequests /\ sent' = sent + 1

\* The requests are not counted.
Uncounted == UNCHANGED sent

\* The bodies of Spec: two asset tags, values inside and outside the two
\* enumerations, and a body without windows_update.
Bodies ==
    {FullBody("PC-1", "operativo", "si"),
     FullBody("PC-2", "dañado", "no"),
     FullBody("PC-1", "roto", "si"),
     FullBody("PC-2", "operativo", "quizas"),
     Omit(FullBody("PC-2", "mantenimiento", "no"), {"windows_update"})}

\* The store is ready and the server listens; no request has been served.
\* The requests of Spec and SpecFields carry no photo and never look at
\* uploads/.
InitNoPhotos == Init /\ ~uploadsDir

\* Two clients create, update and delete concurrently, without photos.
Next ==
    \E c \in Clients :
        \/ \E b \in Bodies : Uncounted /\ Post(c, b, NoBase64, NoUpload)
        \/ PostHandler(c)
        \/ InsertCallback(c)
        \/ \E id \in Ids, b \in Bodies :
               Uncounted /\ Put(c, id, b, NoBase64, NoUpload)
        \/ PutHandler(c)
        \/ UpdateCallback(c)
        \/ \E id \in Ids : Uncounted /\ Delete(c, id)
        \/ DeleteSelectCallback(c)
        \/ DeleteRunCallback(c, {})
        \/ Close(c)

Spec == InitNoPhotos /\ [][Next]_vars

\* The sets of fields a body of SpecFields leaves out: none, any single
\* field, any of three optional fields together, and all optional fields.
OmitSets ==
    {{f} : f \in NonPhotoFields}
      \cup SUBSET {"placa_ml", "longitud", "revisor"}
      \cup {OptionalFields}

\* The bodies of SpecFields: fields left out, fields sent empty, a second
\* asset tag and a value outside an enumeration.
FieldBodies ==
    {Omit(FullBody("PC-1", "operativo", "si"), o) : o \in OmitSets}
      \cup {Blank(FullBody("PC-1", "mantenimiento", "no"), {f}) :
              f \in {"equipo_id", "cargo", "estado", "observaciones"}}
      \cup {FullBody("PC-2", "dañado", "no"),
            FullBody("PC-2", "operativo", "tal vez")}

\* One client creates, updates and deletes, one request after the other.
NextFields ==
    \/ \E b \in FieldBodies : Uncounted /\ Post(1, b, NoBase64, NoUpload)
    \/ PostHandler(1)
    \/ InsertCallback(1)
    \/ \E id \in Ids, b \in FieldBodies :
           Uncounted /\ Put(1, id, b, NoBase64, NoUpload)
    \/ PutHandler(1)
    \/ UpdateCallback(1)
    \/ \E id \in Ids : Uncounted /\ Delete(1, id)
    \/ DeleteSelectCallback(1)
    \/ DeleteRunCallback(1, {})
    \/ Close(1)

SpecFields == InitNoPhotos /\ [][NextFields]_vars

(***************************************************************************)
(* Requests with photos.                                                   *)
(***************************************************************************)
\* A data URI, split at its comma, and a base64 text with no comma.
DataURI == <<"data:image/jpeg;base64", "/9j/4AAQ">>
BareBase64 == <<"/9j/4AAQ">>

JpegFile(originalname) ==
    [originalname |-> originalname, mimetype |-> <<"image", "jpeg">>,
     size |-> 1024]

GoodBody == FullBody("PC-1", "operativo", "si")

\* The photos of a request of SpecPhotos: a data URI in any of the slots;
\* an uploaded part next to a data URI for the same slot; two parts whose
\* names differ in their whitespace only; a text with no comma after a
\* good data URI; an empty base64 field.
PhotoInputs ==
    {[base64 |-> b, upload |-> NoUpload] :
        b \in [{"frontal", "serial", "placa"} -> {<<>>, DataURI}]}
      \cup
    {[base64 |-> [NoBase64 EXCEPT !["frontal"] = DataURI,
                                  !["serial"] = DataURI],
      upload |-> [NoUpload EXCEPT !["frontal"] =
                    JpegFile(<<"a", " ", "b">>)]],
     [base64 |-> NoBase64,
      upload |-> [NoUpload EXCEPT
                    !["serial"] = JpegFile(<<"a", " ", " ", "b">>),
                    !["placa"] = JpegFile(<<"a", "_", "b">>)]],
     [base64 |-> [NoBase64 EXCEPT !["frontal"] = DataURI,
                                  !["serial"] = BareBase64],
      upload |-> NoUpload],
     [base64 |-> [NoBase64 EXCEPT !["placa"] = <<"">>],
      upload |-> NoUpload]}

\* One client creates, updates and deletes records with photos while the
\* clock advances; any of the unlinks of a delete may throw.
NextPhotos ==
    \/ Tick
    \/ \E p \in PhotoInputs :
         Counted /\ Post(1, GoodBody, p.base64, p.upload)
    \/ PostHandler(1)
    \/ InsertCallback(1)
    \/ \E id \in Ids, p \in PhotoInputs :
         Counted /\ Put(1, id, GoodBody, p.base64, p.upload)
    \/ PutHandler(1)
    \/ UpdateCallback(1)
    \/ \E id \in Ids : Counted /\ Delete(1, id)
    \/ DeleteSelectCallback(1)
    \/ \E throws \in SUBSET {"frontal", "serial", "placa"} :
         DeleteRunCallback(1, throws)
    \/ Close(1)

SpecPhotos == Init /\ [][NextPhotos]_vars

\* The photos of a request of SpecRace.
RacePhotoInputs ==
    {[base64 |-> NoBase64, upload |-> NoUpload],
     [base64 |-> [NoBase64 EXCEPT !["frontal"] = DataURI],
      upload |-> NoUpload],
     [base64 |-> NoBase64,
      upload |-> [NoUpload EXCEPT !["frontal"] =
                    JpegFile(<<"a", " ", "b">>)]]}

\* Two clients create, update and delete one record with a front photo
\* concurrently.
NextRace ==
    \/ Tick
    \/ \E c \in Clients :
         \/ \E p \in RacePhotoInputs :
              CountedRace /\ Post(c, GoodBody, p.base64, p.upload)
         \/ PostHandler(c)
         \/ InsertCallback(c)
         \/ \E id \in Ids, p \in RacePhotoInputs :
              CountedRace /\ Put(c, id, GoodBody, p.base64, p.upload)
         \/ PutHandler(c)
         \/ UpdateCallback(c)
         \/ \E id \in Ids : CountedRace /\ Delete(c, id)
         \/ DeleteSelectCallback(c)
         \/ \E throws \in SUBSET {"frontal"} : DeleteRunCallback(c, throws)
         \/ Close(c)

SpecRace == Init /\ [][NextRace]_vars

(***************************************************************************)
(* Statistics requests next to a writer.                                   *)
(***************************************************************************)
StatsBodies ==
    {FullBody("PC-1", "operativo", "si"), FullBody("PC-2", "dañado", "no")}

\* Client 1 asks for the statistics while client 2 creates, updates and
\* deletes.
NextStats ==
    \/ Counted /\ Estadisticas(1)
    \/ \E key \in Range(StatKeys) : StatsCallback(1, key, FALSE)
    \/ \E b \in StatsBodies : Counted /\ Post(2, b, NoBase64, NoUpload)
    \/ PostHandler(2)
    \/ InsertCallback(2)
    \/ \E id \in Ids, b \in StatsBodies :
         Counted /\ Put(2, id, b, NoBase64, NoUpload)
    \/ PutHandler(2)
    \/ UpdateCallback(2)
    \/ \E id \in Ids : Counted /\ Delete(2, id)
    \/ DeleteSelectCallback(2)
    \/ DeleteRunCallback(2, {})
    \/ \E c \in Clients : Close(c)

SpecStats == InitNoPhotos /\ [][NextStats]_vars

\* A client asks for the statistics again and again, and any of the nine
\* queries may fail.
NextStatsFail ==
    \/ Uncounted /\ Estadisticas(1)
    \/ \E key \in Range(StatKeys), fails \in BOOLEAN :
         StatsCallback(1, key, fails)
    \/ Close(1)

SpecStatsFail == InitNoPhotos /\ [][NextStatsFail]_vars

(***************************************************************************)
(* Requests with parts that multer refuses.                                *)
(***************************************************************************)
PdfFile ==
    [originalname |-> <<"doc">>, mimetype |-> <<"application", "pdf">>,
     size |-> 1024]

\* An image of exactly `size` bytes.
SizedJpeg(size) ==
    [originalname |-> <<"big">>, mimetype |-> <<"image", "jpeg">>,
     size |-> size]

\* The parts of a request of SpecUpload: none; an image; a PDF; an image of
\* exactly the limit and one a byte longer; an image followed by a PDF; an
\* image followed by an image that is too long.
UploadInputs ==
    {NoUpload,
     [NoUpload EXCEPT !["frontal"] = JpegFile(<<"a">>)],
     [NoUpload EXCEPT !["frontal"] = PdfFile],
     [NoUpload EXCEPT !["serial"] = SizedJpeg(FileSizeLimit)],
     [NoUpload EXCEPT !["serial"] = SizedJpeg(FileSizeLimit + 1)],
     [NoUpload EXCEPT !["frontal"] = JpegFile(<<"a">>),
                      !["placa"] = PdfFile],
     [NoUpload EXCEPT !["frontal"] = JpegFile(<<"a">>),
                      !["placa"] = SizedJpeg(FileSizeLimit + 1)]}

\* One client creates and updates records with uploaded parts.
NextUpload ==
    \/ Tick
    \/ \E u \in UploadInputs : Counted /\ Post(1, GoodBody, NoBase64, u)
    \/ PostHandler(1)
    \/ InsertCallback(1)
    \/ \E id \in Ids, u \in UploadInputs :
         Counted /\ Put(1, id, GoodBody, NoBase64, u)
    \/ PutHandler(1)
    \/ UpdateCallback(1)
    \/ Close(1)

SpecUpload == Init /\ [][NextUpload]_vars

(***************************************************************************)
(* GET /api/computadores/:id                                               *)
(***************************************************************************)
\* The route handler issues the SELECT of the row.
Get(c, id) ==
    /\ Arrive(c, "GET", id)
    /\ pc' = [pc EXCEPT ![c] = "get"]
    /\ UNCHANGED <<storeVars, diskVars, now, deleteVars, statsVars>>
    /\ UNCHANGED bootVars

NoEncontrado == [status |-> 404, error |-> "Computador no encontrado"]

Found(r) == [status |-> 200, row |-> r]

\* The SELECT is executed and its callback answers with the row, or with
\* 404 when there is none.
GetCallback(c) ==
    /\ pc[c] = "get"
    /\ LET target == {r \in computadores : r["id"] = req[c].id}
       IN  res' = [res EXCEPT ![c] =
                     IF target = {} THEN Append(@, NoEncontrado)
                     ELSE Append(@, Found(CHOOSE r \in target : TRUE))]
    /\ pc' = [pc EXCEPT ![c] = "answered"]
    /\ UNCHANGED <<storeVars, diskVars, now, req, reqFiles, params,
                   deleteVars, statsVars, sent>>
    /\ UNCHANGED bootVars

\* Two clients create, read, update and delete by id concurrently.
NextById ==
    \E c \in Clients :
        \/ \E b \in StatsBodies : Uncounted /\ Post(c, b, NoBase64, NoUpload)
        \/ PostHandler(c)
        \/ InsertCallback(c)
        \/ \E id \in Ids, b \in StatsBodies :
               Uncounted /\ Put(c, id, b, NoBase64, NoUpload)
        \/ PutHandler(c)
        \/ UpdateCallback(c)
        \/ \E id \in Ids : Uncounted /\ Delete(c, id)
        \/ DeleteSelectCallback(c)
        \/ DeleteRunCallback(c, {})
        \/ \E id \in Ids : Uncounted /\ Get(c, id)
        \/ GetCallback(c)
        \/ Close(c)

SpecById == InitNoPhotos /\ [][NextById]_vars

(***************************************************************************)
(* Creates and updates while the seconds pass.                             *)
(***************************************************************************)
\* The clock advances by a second.
TickSecond ==
    /\ CurrentTimestamp(now) < MaxSeconds
    /\ now' = now + MsPerSecond
    /\ UNCHANGED <<storeVars, diskVars, pc, req, reqFiles, params, deleteVars,
                   statsVars, res, sent>>
    /\ UNCHANGED bootVars

\* Two clients create and update records while the clock advances.
NextClock ==
    \/ TickSecond
    \/ \E c \in Clients :
         \/ \E b \in StatsBodies : Uncounted /\ Post(c, b, NoBase64, NoUpload)
         \/ PostHandler(c)
         \/ InsertCallback(c)
         \/ \E id \in Ids, b \in StatsBodies :
                Uncounted /\ Put(c, id, b, NoBase64, NoUpload)
         \/ PutHandler(c)
         \/ UpdateCallback(c)
         \/ Close(c)

SpecClock == InitNoPhotos /\ [][NextClock]_vars

(***************************************************************************)
(* startServer and initializeDatabase.                                     *)
(***************************************************************************)
requestVars ==
    <<computadores, lastID, uploads, uploadsDir, written, clobbered, now, pc,
      req, reqFiles, params, row, unlinked, pending, stats, completed,
      hasError, failed, res, sent>>

\* startServer has called initializeDatabase, which opens the database.
InitStartup ==
    /\ Idle
    /\ boot = "opening"
    /\ dbInitialized = FALSE
    /\ tableCreated = FALSE
    /\ indexPending = {}
    /\ indexCreated = {}
    /\ indicesCreated = 0

\* The callback of new sqlite3.Database: reject, or run CREATE TABLE.
OpenCallback(fails) ==
    /\ boot = "opening"
    /\ boot' = IF fails THEN "rejected" ELSE "creatingTable"
    /\ UNCHANGED <<dbInitialized, tableCreated, indexPending, indexCreated,
                   indicesCreated>>
    /\ UNCHANGED requestVars

\* The callback of CREATE TABLE: reject, or run the five CREATE INDEX.
TableCallback(fails) ==
    /\ boot = "creatingTable"
    /\ IF fails
         THEN /\ boot' = "rejected"
              /\ UNCHANGED <<tableCreated, indexPending>>
       ELSE /\ boot' = "creatingIndices"
            /\ tableCreated' = TRUE
            /\ indexPending' = Indices
    /\ UNCHANGED <<dbInitialized, indexCreated, indicesCreated>>
    /\ UNCHANGED requestVars

\* The callback of one CREATE INDEX, in any order among those pending: an
\* error is logged; a success is counted, and the fifth success sets the
\* flag and resolves.
IndexCallback(idx, fails) ==
    /\ boot = "creatingIndices"
    /\ idx \in indexPending
    /\ indexPending' = indexPending \ {idx}
    /\ IF fails
         THEN UNCHANGED <<boot, dbInitialized, indexCreated, indicesCreated>>
       ELSE /\ indexCreated' = indexCreated \cup {idx}
            /\ indicesCreated' = indicesCreated + 1
            /\ IF indicesCreated + 1 = Cardinality(Indices)
                 THEN /\ dbInitialized' = TRUE
                      /\ boot' = "resolved"
               ELSE UNCHANGED <<boot, dbInitialized>>
    /\ UNCHANGED tableCreated
    /\ UNCHANGED requestVars

\* await initializeDatabase() returns and app.listen is called.
Listen ==
    /\ boot = "resolved"
    /\ boot' = "listening"
    /\ UNCHANGED <<dbInitialized, tableCreated, indexPending, indexCreated,
                   indicesCreated>>
    /\ UNCHANGED requestVars

\* await initializeDatabase() throws and the catch calls process.exit(1).
Exit ==
    /\ boot = "rejected"
    /\ boot' = "exited"
    /\ UNCHANGED <<dbInitialized, tableCreated, indexPending, indexCreated,
                   indicesCreated>>
    /\ UNCHANGED requestVars

NextStartup ==
    \/ \E fails \in BOOLEAN : OpenCallback(fails)
    \/ \E fails \in BOOLEAN : TableCallback(fails)
    \/ \E idx \in Indices, fails \in BOOLEAN : IndexCallback(idx, fails)
    \/ Listen
    \/ Exit

\* Every callback that is due runs, and so does the continuation of
\* startServer.
SpecStartup == InitStartup /\ [][NextStartup]_vars /\ WF_vars(NextStartup)

(***************************************************************************)
(* GET /api/computadores                                                   *)
(***************************************************************************)
\* The characters of the texts that the listing compares.
Chars(text) ==
    CASE text = "" -> <<>>
      [] text = "PC-1" -> <<"P", "C", "-", "1">>
      [] text = "PC-2" -> <<"P", "C", "-", "2">>
      [] text = "SN-1" -> <<"S", "N", "-", "1">>
      [] text = "Ana" -> <<"A", "n", "a">>
      [] text = "Eva" -> <<"E", "v", "a">>
      [] text = "x" -> <<"x">>
      [] text = "an" -> <<"a", "n">>
      [] text = "C-" -> <<"C", "-">>
      [] text = "C_1" -> <<"C", "_", "1">>
      [] text = "%" -> <<"%">>
      [] text = "PC" -> <<"P", "C">>

LowerCase == <<"a", "c", "e", "n", "p", "s", "v", "x">>
UpperCase == <<"A", "C", "E", "N", "P", "S", "V", "X">>

\* LIKE compares ASCII letters without regard to case.
Upper(ch) ==
    IF \E i \in 1..Len(LowerCase) : LowerCase[i] = ch
      THEN UpperCase[CHOOSE i \in 1..Len(LowerCase) : LowerCase[i] = ch]
    ELSE ch

\* text LIKE pattern: % stands for any run of characters, _ for any one
\* character.
RECURSIVE Like(_, _)
Like(pattern, text) ==
    IF pattern = <<>> THEN text = <<>>
    ELSE IF Head(pattern) = "%"
      THEN \/ Like(Tail(pattern), text)
           \/ text # <<>> /\ Like(pattern, Tail(text))
    ELSE /\ text # <<>>
         /\ Head(pattern) = "_" \/ Upper(Head(pattern)) = Upper(Head(text))
         /\ Like(Tail(pattern), Tail(text))

\* The keys of req.query that the handler reads, and one that it does not.
LikeKeys == {"responsable", "equipo_id", "serial_number", "revisor"}
QueryKeys == {"estado", "cargo"} \cup LikeKeys

NoQuery == [k \in QueryKeys |-> Undefined]

\* The rows that the SELECT built from the query returns: `estado = ?` and
\* `column LIKE '%value%'` for each key that is truthy.
Selected(query) ==
    {r \in computadores :
       /\ ~Falsy(query["estado"]) => r["estado"] = query["estado"]
       /\ \A k \in LikeKeys :
            ~Falsy(query[k]) =>
              /\ r[k] # NULL
              /\ Like(<<"%">> \o Chars(query[k]) \o <<"%">>, Chars(r[k]))}

\* ORDER BY fecha_revision DESC: the orders in which the rows may come.
Ordered(rows) ==
    {s \in [1..Cardinality(rows) -> rows] :
       /\ \A i, j \in DOMAIN s : i # j => s[i] # s[j]
       /\ \A i, j \in DOMAIN s :
            i < j => s[i]["fecha_revision"] >= s[j]["fecha_revision"]}

\* The route handler builds the query and issues db.all.
List(c, query) ==
    /\ pc[c] = "idle"
    /\ req' = [req EXCEPT ![c] =
                 [method |-> "LIST", id |-> 0, body |-> NoBody,
                  base64 |-> NoBase64, upload |-> NoUpload,
                  query |-> query]]
    /\ pc' = [pc EXCEPT ![c] = "list"]
    /\ UNCHANGED <<storeVars, diskVars, now, reqFiles, params, deleteVars,
                   statsVars, res>>
    /\ UNCHANGED bootVars

Listed(rows) == [status |-> 200, rows |-> rows]

\* The SELECT is executed and its callback answers with the rows.
ListCallback(c) ==
    /\ pc[c] = "list"
    /\ \E rows \in Ordered(Selected(req[c].query)) :
         res' = [res EXCEPT ![c] = Append(@, Listed(rows))]
    /\ pc' = [pc EXCEPT ![c] = "answered"]
    /\ UNCHANGED <<storeVars, diskVars, now, req, reqFiles, params,
                   deleteVars, statsVars, sent>>
    /\ UNCHANGED bootVars

\* The records of SpecList: they differ in every filtered column, and the
\* second has no revisor.
ListBodies ==
    {FullBody("PC-1", "operativo", "si"),
     [FullBody("PC-2", "dañado", "no") EXCEPT !["responsable"] = "Eva",
                                              !["revisor"] = Undefined]}

\* The queries of SpecList: no filter; estado in the stored and in another
\* case; a text in another case; a text inside a value; texts with the
\* characters _ and %; a filter on a column that can be NULL; a key the
\* handler does not read; two filters together; an empty filter.
ListQueries ==
    {NoQuery,
     [NoQuery EXCEPT !["estado"] = "operativo"],
     [NoQuery EXCEPT !["estado"] = "Operativo"],
     [NoQuery EXCEPT !["responsable"] = "an"],
     [NoQuery EXCEPT !["equipo_id"] = "C-"],
     [NoQuery EXCEPT !["equipo_id"] = "C_1"],
     [NoQuery EXCEPT !["serial_number"] = "%"],
     [NoQuery EXCEPT !["revisor"] = "x"],
     [NoQuery EXCEPT !["cargo"] = "x"],
     [NoQuery EXCEPT !["estado"] = "dañado", !["equipo_id"] = "PC"],
     [NoQuery EXCEPT !["equipo_id"] = ""]}

\* Client 1 lists while client 2 creates and deletes and the clock advances.
NextList ==
    \/ TickSecond
    \/ \E q \in ListQueries : Uncounted /\ List(1, q)
    \/ ListCallback(1)
    \/ \E b \in ListBodies : Uncounted /\ Post(2, b, NoBase64, NoUpload)
    \/ PostHandler(2)
    \/ InsertCallback(2)
    \/ \E id \in Ids : Uncounted /\ Delete(2, id)
    \/ DeleteSelectCallback(2)
    \/ DeleteRunCallback(2, {})
    \/ \E c \in Clients : Close(c)

SpecList == InitNoPhotos /\ [][NextList]_vars

(***************************************************************************)
(* Properties.                                                             *)
(***************************************************************************)
Last(seq) == seq[Len(seq)]

\* The step in which the request of client c is answered.
Answers(c) == pc[c] \notin {"idle", "answered"} /\ pc'[c] = "answered"

\* The rows of the table other than the one a PUT of client c addresses.
OtherRows(c) ==
    IF req[c].method = "PUT"
      THEN {r \in computadores : r["id"] # req[c].id}
    ELSE computadores

\* The statement of client c is executed on an existing row (UPDATE) or as
\* an INSERT, with an equipo_id that another stored row has.
DuplicateStatement(c) ==
    /\ pc[c] \in {"insert", "update"}
    /\ pc[c] = "update" => \E r \in computadores : r["id"] = req[c].id
    /\ \E r \in OtherRows(c) : r["equipo_id"] = params[c]["equipo_id"]

\* The values of the statement pass NOT NULL and CHECK.
WellFormed(p) ==
    /\ \A f \in RequiredFields : p[f] # NULL
    /\ p["estado"] \in EstadoValues
    /\ p["windows_update"] \in WindowsUpdateValues

UniqueEquipoId ==
    \A r1, r2 \in computadores :
        r1["equipo_id"] = r2["equipo_id"] => r1 = r2

DuplicateRejected ==
    \A c \in Clients :
        DuplicateStatement(c) /\ Answers(c) =>
            /\ computadores' = computadores
            /\ Last(res'[c]).status = 400
            /\ Last(res'[c]).code = "SQLITE_CONSTRAINT"
            /\ WellFormed(params[c]) =>
                 Last(res'[c]).error = "El ID del equipo ya existe"

\* C1: no two rows ever have the same equipo_id; an INSERT, or an UPDATE of
\* an existing row, whose equipo_id another stored row has is answered 400
\* with a constraint violation (the duplicate-asset-tag message whenever
\* the statement violates no other constraint) and changes no row.
C1_UniqueEquipoId == []UniqueEquipoId /\ [][DuplicateRejected]_vars

\* A client was answered that the asset tag exists, and the row that holds
\* the tag is in the table.
C1_Witness ==
    \E c \in Clients :
        /\ pc[c] = "answered"
        /\ Len(res[c]) = 1
        /\ res[c][1].status = 400
        /\ res[c][1].error = "El ID del equipo ya existe"
        /\ \E r \in computadores :
             r["equipo_id"] = req[c].body["equipo_id"]

\* A field the request does not carry, or carries empty.
Missing(body, f) == body[f] \in {Undefined, ""}

\* The POST handler runs on a body that lacks a required field.
MissingRejected ==
    \A c \in Clients :
        /\ pc[c] = "handler"
        /\ req[c].method = "POST"
        /\ \E f \in RequiredFields : Missing(req[c].body, f)
        /\ pc'[c] # pc[c]
        => /\ pc'[c] = "answered"
           /\ computadores' = computadores
           /\ Len(res'[c]) = 1
           /\ res'[c][1].status = 400
           /\ res'[c][1].error = "Campos requeridos faltantes"
           /\ res'[c][1].required = RequiredFields
           /\ res'[c][1].received
                \cap NonPhotoFields
                = {f \in NonPhotoFields : req[c].body[f] # Undefined}

\* The POST handler runs on a body with the six fields: the INSERT is
\* issued with the submitted values unless the photos cannot be processed.
CompleteIssued ==
    \A c \in Clients :
        /\ pc[c] = "handler"
        /\ req[c].method = "POST"
        /\ \A f \in RequiredFields : ~Missing(req[c].body, f)
        /\ pc'[c] # pc[c]
        => \/ /\ pc'[c] = "insert"
              /\ \A f \in RequiredFields : params'[c][f] = req[c].body[f]
           \/ /\ pc'[c] = "answered"
              /\ res'[c] = <<PhotoError>>

\* The INSERT of a request with valid values and a new equipo_id stores one
\* row and the answer carries its id.
ValidInserted ==
    \A c \in Clients :
        /\ pc[c] = "insert"
        /\ Answers(c)
        /\ WellFormed(params[c])
        /\ ~DuplicateStatement(c)
        => /\ Cardinality(computadores') = Cardinality(computadores) + 1
           /\ computadores \subseteq computadores'
           /\ Last(res'[c]).status = 201
           /\ Last(res'[c]).equipo_id = req[c].body["equipo_id"]
           /\ Last(res'[c]).serial_number = req[c].body["serial_number"]
           /\ \A r \in computadores' \ computadores :
                /\ r["id"] = Last(res'[c]).id
                /\ r["id"] \notin {x["id"] : x \in computadores}
                /\ \A f \in RequiredFields : r[f] = req[c].body[f]

\* C2: a create that lacks any of the six required fields is answered 400
\* with the required and the received fields and inserts no row; a create
\* with the six present and valid (values inside the enumerations, an
\* equipo_id not yet stored, photos that can be processed) inserts exactly
\* one row and is answered with its new id and the submitted equipo_id and
\* serial_number.
C2_CreateValidation ==
    [][MissingRejected /\ CompleteIssued /\ ValidInserted]_vars

\* A create without estado was answered with the validation error.
C2_Witness ==
    /\ pc[1] = "answered"
    /\ req[1].method = "POST"
    /\ req[1].body["estado"] = Undefined
    /\ Len(res[1]) = 1
    /\ res[1][1].status = 400
    /\ res[1][1].error = "Campos requeridos faltantes"
    /\ "cargo" \in res[1][1].received

\* The value an UPDATE must store for a non-photo field of the request.
Carried(body, f) == IF body[f] = Undefined THEN NULL ELSE body[f]

UpdateOverwrites ==
    \A c \in Clients :
        /\ pc[c] = "update"
        /\ Answers(c)
        /\ Last(res'[c]).status = 200
        => \E r \in computadores' :
             /\ r["id"] = req[c].id
             /\ \A f \in NonPhotoFields : r[f] = Carried(req[c].body, f)

\* C4: after a successful update the non-photo fields of the row equal the
\* request's fields, with NULL for every field the request omits.
C4_UpdateOverwrites == [][UpdateOverwrites]_vars

\* An update that omitted all optional fields succeeded and the row, whose
\* revisor was set before, now has revisor NULL.
C4_Witness ==
    /\ pc[1] = "answered"
    /\ req[1].method = "PUT"
    /\ req[1].body["revisor"] = Undefined
    /\ req[1].body["latitud"] = Undefined
    /\ res[1] = <<Updated>>
    /\ \E r \in computadores :
         r["id"] = req[1].id /\ r["revisor"] = NULL /\ r["latitud"] = NULL

\* A request whose estado or windows_update is not a value of the
\* enumeration.
OutsideEnumeration(body) ==
    \/ body["estado"] \notin EstadoValues
    \/ body["windows_update"] \notin WindowsUpdateValues

EnumerationsHold ==
    \A r \in computadores :
        /\ r["estado"] \in EstadoValues
        /\ r["windows_update"] \in WindowsUpdateValues

OutsideRejected ==
    \A c \in Clients :
        /\ req[c].method \in {"POST", "PUT"}
        /\ OutsideEnumeration(req[c].body)
        /\ Answers(c)
        => /\ computadores' = computadores
           /\ Last(res'[c]).status \in {400, 404}

\* C5: every stored row has estado and windows_update inside their
\* enumerations; a create or update that carries a value outside either is
\* answered with an error and changes no row.
C5_Enumerations == []EnumerationsHold /\ [][OutsideRejected]_vars

\* An update of an existing row with windows_update "quizas" was answered
\* with the store's validation error.
C5_Witness ==
    \E c \in Clients :
        /\ pc[c] = "answered"
        /\ req[c].method = "PUT"
        /\ req[c].body["windows_update"] = "quizas"
        /\ \E r \in computadores : r["id"] = req[c].id
        /\ Len(res[c]) = 1
        /\ res[c][1].status = 400
        /\ res[c][1].error = "Error de validación de datos"

\* The request of client c supplies a new photo for the slot: an uploaded
\* part or a base64 text that is not empty.
Supplies(c, slot) ==
    \/ req[c].upload[slot] # NoFile
    \/ req[c].base64[slot] \notin {<<>>, <<"">>}

PhotosKeptOrReplaced ==
    \A c \in Clients :
        /\ pc[c] = "update"
        /\ Answers(c)
        /\ Last(res'[c]).status = 200
        => \E old \in computadores, new \in computadores' :
             /\ old["id"] = req[c].id
             /\ new["id"] = req[c].id
             /\ \A slot \in {"frontal", "serial", "placa"} :
                  IF Supplies(c, slot)
                    THEN /\ new[PhotoField(slot)] # NULL
                         /\ new[PhotoField(slot)] = params[c][PhotoField(slot)]
                         /\ new[PhotoField(slot)] \in written
                  ELSE new[PhotoField(slot)] = old[PhotoField(slot)]

\* C3: a successful update leaves each photo field at its stored value
\* (NULL included) when the request supplies no new photo for the slot and
\* sets it to the path of the new file when it supplies one, slot by slot.
C3_PhotosKeptOrReplaced == [][PhotosKeptOrReplaced]_vars

\* An update that supplied only a front photo succeeded on a row that had a
\* front and a serial photo and no board photo: the front path is the
\* update's, the serial path is the create's, the board path is still NULL.
C3_Witness ==
    /\ pc[1] = "answered"
    /\ req[1].method = "PUT"
    /\ res[1] = <<Updated>>
    /\ Supplies(1, "frontal")
    /\ ~Supplies(1, "serial")
    /\ ~Supplies(1, "placa")
    /\ \E r \in computadores :
         /\ r["id"] = req[1].id
         /\ r["foto_frontal"] = Base64UpdatePath(now, "frontal")
         /\ r["foto_serial"] = Base64Path(0, "serial")
         /\ r["foto_placa"] = NULL

\* The photo paths of the rows and of the statements that are pending were
\* all written before.
PhotosWritten ==
    /\ \A r \in computadores : \A f \in PhotoFields :
         r[f] = NULL \/ r[f] \in written
    /\ \A c \in Clients : \A f \in PhotoFields :
         pc[c] \in {"insert", "update"} =>
           params[c][f] = NULL \/ params[c][f] \in written

\* A statement is issued or executed only with paths whose files are written.
WrittenBeforeIssued ==
    \A c \in Clients : \A f \in PhotoFields :
        pc'[c] \in {"insert", "update"} /\ params'[c][f] # NULL =>
          params'[c][f] \in written'

\* C6: every photo field of every row is NULL or a path whose file had been
\* written before the INSERT or UPDATE that recorded it was issued; no
\* request issues its statement before its photo files are written.
C6_PhotosWrittenFirst == []PhotosWritten /\ [][WrittenBeforeIssued]_vars

\* A row holds the path of an uploaded part and the path of a base64 photo.
C6_Witness ==
    \E r \in computadores :
        /\ r["foto_frontal"] = StorageFilename(0, <<"a", " ", "b">>)
        /\ r["foto_serial"] = Base64Path(now, "serial")
        /\ r["foto_frontal"] \in written
        /\ r["foto_serial"] \in written

\* C7: no photo write produces a path that another photo write produced.
C7_FilenamesDistinct == clobbered = {}

\* The DELETE of client c removes a row whose SELECT returned three paths.
DeletesThreePhotos(c) ==
    /\ pc[c] = "delete"
    /\ Answers(c)
    /\ \E r \in computadores : r["id"] = req[c].id
    /\ \E r \in row[c] : \A slot \in DOMAIN r : r[slot] # NULL

AllUnlinksAttempted ==
    \A c \in Clients :
        DeletesThreePhotos(c) =>
          /\ \A r \in computadores' : r["id"] # req[c].id
          /\ Last(res'[c]) = Deleted
          /\ \A r \in row[c] : \A slot \in DOMAIN r :
               r[slot] \in uploads =>
                 \E i \in 1..Len(unlinked'[c]) : unlinked'[c][i].path = r[slot]

\* C8: a successful delete of a record with three photo paths calls unlink
\* on every one of the three files that exists, whichever of the calls
\* throw; the row is removed and the answer is the success.
C8_AllUnlinksAttempted == [][AllUnlinksAttempted]_vars

\* A delete answered success after three unlinks of which the first threw:
\* the row is gone and the file of the first is still there.
C8_Witness ==
    /\ pc[1] = "answered"
    /\ req[1].method = "DELETE"
    /\ res[1] = <<Deleted>>
    /\ Len(unlinked[1]) = 3
    /\ unlinked[1][1].threw
    /\ ~unlinked[1][2].threw
    /\ unlinked[1][1].path \in uploads
    /\ unlinked[1][2].path \notin uploads
    /\ \A r \in computadores : r["id"] # req[1].id

\* C9: in every statistics object that is returned, the three estado
\* counts add up to total.
C9_StatsConsistent ==
    \A c \in Clients :
        \A i \in 1..Len(res[c]) :
            req[c].method = "STATS" /\ res[c][i].status = 200 =>
              res[c][i].stats["total"]
                = res[c][i].stats["operativos"]
                    + res[c][i].stats["mantenimiento"]
                    + res[c][i].stats["dañados"]

\* C10: a statistics request is answered at most once, and exactly once
\* when its nine callbacks have run; if any query failed, the answer is an
\* error and no statistics object is sent, and if none failed the answer is
\* the object with its nine counts.
C10_OneAnswer ==
    \A c \in Clients :
        req[c].method = "STATS" =>
          /\ Len(res[c]) <= 1
          /\ pc[c] = "answered" => Len(res[c]) = 1
          /\ failed[c] # {} =>
               \A i \in 1..Len(res[c]) : res[c][i].status = 500
          /\ pc[c] = "answered" /\ failed[c] = {} =>
               /\ res[c][1].status = 200
               /\ DOMAIN res[c][1].stats = Range(StatKeys)

\* The nine callbacks have run, the first, a middle and the last query of
\* the list failed, and the one answer is the error.
C10_Witness ==
    /\ pc[1] = "answered"
    /\ req[1].method = "STATS"
    /\ failed[1] = {"total", "windows_si", "con_ubicacion"}
    /\ Len(res[1]) = 1
    /\ res[1][1].status = 500
    /\ completed[1] = 6

\* The photo paths that are set in the rows with the id.
StoredPaths(id) ==
    {r[f] : r \in {x \in computadores : x["id"] = id}, f \in PhotoFields}
      \ {NULL}

UnlinksStoredPaths ==
    \A c \in Clients :
        /\ pc[c] = "delete"
        /\ row[c] # {}
        /\ Answers(c)
        /\ Last(res'[c]) = Deleted
        => {unlinked'[c][i].path : i \in 1..Len(unlinked'[c])}
             = StoredPaths(req[c].id) \cap uploads

\* C16: when a delete whose SELECT found the row reports success, the files
\* on which removal is attempted are the files of the photo paths that the
\* row held when it was removed, also when an update of the same id was
\* served between the delete's SELECT and its DELETE.
C16_UnlinksStoredPaths == [][UnlinksStoredPaths]_vars

\* A part that is not an image, or one longer than 15 MB.
Refused(file) ==
    /\ file # NoFile
    /\ file.mimetype[1] # "image" \/ file.size > FileSizeLimit

\* A request with a refused part arrives.
RefusedAnswered400 ==
    \A c \in Clients :
        /\ pc[c] = "idle"
        /\ pc'[c] # "idle"
        /\ req'[c].method \in {"POST", "PUT"}
        /\ \E slot \in DOMAIN req'[c].upload : Refused(req'[c].upload[slot])
        => /\ pc'[c] = "answered"
           /\ computadores' = computadores
           /\ Len(res'[c]) = 1
           /\ res'[c][1].status = 400

\* C12: a create or update with an uploaded part that is not an image, or
\* that is longer than 15 MB, is answered 400 as a whole and inserts or
\* modifies no row.
C12_RefusedAnswered400 == [][RefusedAnswered400]_vars

\* No row of the table has the id.
Absent(id) == \A r \in computadores : r["id"] # id

\* The UPDATE, the DELETE or the SELECT of a request is executed for an id
\* that no row has.
AbsentAnswered404 ==
    \A c \in Clients :
        /\ pc[c] \in {"update", "delete", "get"}
        /\ Answers(c)
        /\ Absent(req[c].id)
        => /\ computadores' = computadores
           /\ Len(res'[c]) = 1
           /\ res'[c][1].status = 404

\* C11: an update, a delete or a get of an id that is not in the table is
\* answered 404, and the table stays as it is.
C11_AbsentAnswered404 == [][AbsentAnswered404]_vars

\* An update of an id that no row has was answered 404 while the table
\* holds another row, and a delete of such an id was answered 404 too.
C11_Witness ==
    /\ pc[1] = "answered"
    /\ req[1].method = "PUT"
    /\ res[1] = <<NotFound>>
    /\ pc[2] = "answered"
    /\ req[2].method = "DELETE"
    /\ res[2] = <<NotFound>>
    /\ computadores # {}
    /\ Absent(req[1].id)
    /\ Absent(req[2].id)

UpdatedAfterRevision ==
    \A r \in computadores : r["fecha_actualizacion"] >= r["fecha_revision"]

\* An INSERT stores both timestamps as the current time; an UPDATE stores
\* the current time in fecha_actualizacion and keeps fecha_revision.
TimestampsWritten ==
    \A c \in Clients :
        /\ pc[c] = "insert" /\ Answers(c) =>
             \A r \in computadores' \ computadores :
                 /\ r["fecha_revision"] = CurrentTimestamp(now)
                 /\ r["fecha_actualizacion"] = CurrentTimestamp(now)
        /\ pc[c] = "update" /\ Answers(c) /\ Last(res'[c]).status = 200 =>
             \E old \in computadores, new \in computadores' :
                 /\ old["id"] = req[c].id
                 /\ new["id"] = req[c].id
                 /\ new["fecha_revision"] = old["fecha_revision"]
                 /\ new["fecha_actualizacion"] = CurrentTimestamp(now)

\* C15: every stored row has fecha_actualizacion >= fecha_revision while
\* the clock does not go back; a create sets both to the current time, an
\* update sets fecha_actualizacion only.
C15_UpdatedAfterRevision ==
    []UpdatedAfterRevision /\ [][TimestampsWritten]_vars

\* A row created in the first second was updated in a later one.
C15_Witness ==
    \E c \in Clients :
        /\ pc[c] = "answered"
        /\ req[c].method = "PUT"
        /\ res[c] = <<Updated>>
        /\ \E r \in computadores :
             /\ r["id"] = req[c].id
             /\ r["fecha_revision"] = 0
             /\ r["fecha_actualizacion"] = CurrentTimestamp(now)
             /\ r["fecha_actualizacion"] > r["fecha_revision"]

\* process.exit(1) was called.
Aborted == boot = "exited"

\* C13: startup ends with the store ready and the server listening, or
\* with the process aborted.
C13_StartupEnds == <>(Listening \/ Aborted)

\* `sub` occurs in `text`, letters compared without regard to case as the
\* store does by default.
Contains(text, sub) ==
    \E off \in 0..(Len(text) - Len(sub)) :
        \A i \in 1..Len(sub) : Upper(text[off + i]) = Upper(sub[i])

\* The query supplies a filter for the key.
Supplied(query, k) == query[k] \notin {Undefined, ""}

\* The row satisfies every recognized filter that the query supplies.
Satisfies(r, query) ==
    /\ Supplied(query, "estado") => r["estado"] = query["estado"]
    /\ \A k \in LikeKeys :
         Supplied(query, k) =>
           /\ r[k] # NULL
           /\ Contains(Chars(r[k]), Chars(query[k]))

ListExact ==
    \A c \in Clients :
        pc[c] = "list" /\ Answers(c) =>
          LET rows == Last(res'[c]).rows
          IN  /\ Last(res'[c]).status = 200
              /\ Range(rows)
                   = {r \in computadores : Satisfies(r, req[c].query)}
              /\ Len(rows) = Cardinality(Range(rows))
              /\ \A i, j \in 1..Len(rows) :
                   i < j =>
                     rows[i]["fecha_revision"] >= rows[j]["fecha_revision"]

\* C14: a listing returns exactly the rows that satisfy every recognized
\* filter supplied - estado by equality, the four texts by containment -
\* each once, ordered by fecha_revision descending; other keys are ignored
\* and no filter returns every row.
C14_ListExact == [][ListExact]_vars

=============================================================================
